---- MODULE Spec2Model ----
(***************************************************************************)
(* A model of the fake-truth generator of wardle/ocmr                      *)
(* (fake/cmd_gen_truth.go, ocmr/record.go).                                *)
(*                                                                         *)
(* Four specifications share the module's variables:                       *)
(*   Spec          GenerateFakeTruth, the corpus driver                    *)
(*   SpecBuild     generateTruth with relatedBySiteForDiagnosis            *)
(*   SpecSample    Truth.ToQuestion                                        *)
(*   SpecExplicit  explicitTruth.toFakeTruth                               *)
(*                                                                         *)
(* Floating point values are fixed point numbers: a probability or a draw  *)
(* of rand.Float64/rand.Float32 is a number of hundredths (ProbScale), a   *)
(* draw of rand.NormFloat64 a number of 1/ZScale, a prevalence a number of *)
(* 1/PrevScale.  Every call of math/rand is an input: the action that      *)
(* makes the call draws the value with \E from the call's range.           *)
(***************************************************************************)
EXTENDS Integers, Sequences, FiniteSets

VARIABLES
    \* GenerateFakeTruth
    n,            \* the caller's n
    pc,           \* position of the specification's process
    allDiagnoses, \* FetchRecursiveChildren(rootDiagnosis)
    diagnoses,    \* the diagnoses to build a truth for
    di,           \* index of the diagnosis being built (range loop, 1-based)
    allTruth,     \* the truths built
    prevalence,   \* the map handed to calculatePrevalence
    ti,           \* index of the truth being sampled (range loop, 1-based)
    p,            \* replication count of that truth
    i,            \* inner loop counter
    questions,    \* the output collection (each record by its Answer)
    emitted,      \* emitted[t]: records appended for allTruth[t]
    \* generateTruth
    diagnosis,    \* its argument
    built,        \* its outcome
    \* Truth.ToQuestion
    ft,           \* the receiver
    draws,        \* the rand.Float64() draws of the findings loop, in order
    question,     \* the Record returned
    \* explicitTruth.toFakeTruth
    et,           \* the receiver
    loaded,       \* its outcome
    \* the ontology database behind snomed.DatabaseService
    db            \* [unresolvable: ids FetchConcept fails on, failing: calls that fail]

vars == <<n, pc, allDiagnoses, diagnoses, di, allTruth, prevalence, ti, p, i,
          questions, emitted, diagnosis, built, ft, draws, question, et,
          loaded, db>>

driverVars == <<n, allDiagnoses, diagnoses, di, allTruth, prevalence, ti, p, i,
                questions, emitted>>
buildVars == <<diagnosis, built>>
sampleVars == <<ft, draws, question>>
explicitVars == <<et, loaded>>

----------------------------------------------------------------------------
(* Bounds of the model *)

\* longest Problems sequence of a receiver of ToQuestion / of an explicit truth
MaxProblems == 2
\* number of levels of the grid a rand.Float64 draw is taken from
FloatLevels == 2
\* rand.Intn(m) draws 0 .. DrawBound-1 and m-1
DrawBound == 2
\* rand.NormFloat64 draws -MaxZ .. MaxZ, in units of 1/ZScale
MaxZ == 2
ZScale == 2
\* the caller's n ranges over -1 .. MaxN
MaxN == 1
\* most diagnoses below the diagnosis root
MaxDiagnoses == 2
\* a prevalence is 0 .. MaxPrev, in units of 1/PrevScale
MaxPrev == 3

----------------------------------------------------------------------------
(* Program constants *)

SctDiagnosisRoot == 64572001
Thoracic == 51185008

MenOnly == 0
FemaleOnly == 1
NoSexBias == 2

Male == 1
Female == 2

Unknown == 0
Acute == 1
Subacute == 2
Chronic == 3
Episodic == 4

\* p = 5 + int(prevalence*10000)*n
BaseQuestions == 5
PrevalenceFactor == 10000
\* numSymptoms := 1 + rand.Intn(min(30, totalSymptoms))
MaxSymptoms == 30
\* sd := min(meanAge, 20)
MaxStdDev == 20
\* randomAge: rand.Intn(80) + 20, rand.Intn(20), rand.Float32() > 0.01
AdultSpan == 80
AdultFrom == 20
YoungSpan == 20

\* fixed point scale of a float in [0,1]: hundredths
ProbScale == 100
\* 0.01 and 0.5 in hundredths
YoungThreshold == 1
MaleThreshold == 50
\* fixed point scale of a prevalence
PrevScale == 20000

\* concepts of the myocardial infarction literal
MyocardialInfarctionID == 22298006
ChestPain == 29857009
Breathlessness == 267036007
Sweating == 415690000
JawPain == 426555006
STElevation == 76388001

----------------------------------------------------------------------------
(* The ontology snapshot behind the gateway *)

Pneumonia == 233604007
Hepatitis == 128241005
Eczema == 43116000
Jaundice == 18165001
Heart == 80891009
Lung == 39607008
Liver == 10200004
Skin == 39937001
Abdominal == 818983003
Airway == 321667001
Cough == 49727002

Diagnoses == {MyocardialInfarctionID, Pneumonia, Hepatitis, Eczema}
Findings == {ChestPain, Breathlessness, Sweating, JawPain, STElevation, Jaundice, Cough}
Sites == {Heart, Lung, Liver, Skin}
Structures == {Thoracic, Abdominal, Airway}
Concepts == Diagnoses \cup Findings \cup Sites \cup Structures \cup {SctDiagnosisRoot}

\* all is-a ancestors of a concept
Ancestors(c) ==
    CASE c \in Diagnoses -> {SctDiagnosisRoot}
      [] c = Heart -> {Thoracic}
      [] c = Lung -> {Airway}
      [] c = Liver -> {Abdominal}
      [] OTHER -> {}

\* the targets of a concept's finding-site relations
FindingSites(c) ==
    CASE c \in {MyocardialInfarctionID, ChestPain, JawPain, STElevation} -> {Heart}
      [] c \in {Pneumonia, Breathlessness, Cough} -> {Lung}
      [] c \in {Hepatitis, Jaundice} -> {Liver}
      [] c = Eczema -> {Skin}
      [] OTHER -> {}

\* a healthy database and the faults of the model
CallKinds == {"GetParentsOfKind", "GetSiblings", "FetchRecursiveChildren",
              "GetChildrenOfKind", "GetAllParents"}
Healthy == [unresolvable |-> {}, failing |-> {}]

Fails(call) == call \in db.failing
Resolves(id) == id \in Concepts /\ id \notin db.unresolvable

\* db.GetAllParents(concept)
GetAllParents(c) == Ancestors(c)

----------------------------------------------------------------------------
(* Helpers *)

Min(a, b) == IF a < b THEN a ELSE b

\* Go's int(x) of a float x = a/b, b > 0: truncation toward zero
TruncDiv(a, b) == IF a >= 0 THEN a \div b ELSE -((-a) \div b)

\* the draws of rand.Intn(m) the model takes, m > 0
Intn(m) == {r \in 0..(m - 1) : r < DrawBound \/ r = m - 1}

\* the draws of rand.Float64() and rand.Float32(): a grid of [0,1), and for
\* Float32 the values around the thresholds the code compares it with
Float64Draws == {(k * ProbScale) \div FloatLevels : k \in 0..(FloatLevels - 1)}
Float32Draws == Float64Draws \cup {YoungThreshold, YoungThreshold + 1,
                                   MaleThreshold - 1, MaleThreshold}
\* the draws of rand.NormFloat64(), in units of 1/ZScale
NormDraws == (-MaxZ)..MaxZ

Range(s) == {s[k] : k \in DOMAIN s}

SeqsUpTo(S, len) == UNION {[1..k -> S] : k \in 0..len}

----------------------------------------------------------------------------
(* Truth.ToQuestion and what it calls *)

\* the nil *Truth and a Record not yet produced
NoTruth == [Diagnosis |-> 0, Parents |-> {}, Problems |-> <<>>,
            SexBias |-> NoSexBias, MeanAge |-> 0, StdDevAge |-> 0]
NoRecord == [Age |-> 0, Sex |-> 0, Findings |-> <<>>, Answer |-> 0, Parents |-> {}]

\* Problem.ToFinding, its GetAllParents having succeeded
ToFinding(fp) ==
    [Concept |-> fp.Problem, Parents |-> GetAllParents(fp.Problem),
     Duration |-> fp.Duration]

IncludedLax(probability, draw) == probability >= draw

\* if problem.Probability > rand.Float64()
Included(probability, draw) == probability > draw

\* the findings loop of ToQuestion from problem k on, findings being appended
\* to; coins[k] is the draw of rand.Float64() in iteration k
RECURSIVE FindingsLoop(_, _, _, _)
FindingsLoop(problems, coins, k, findings) ==
    IF k > Len(problems) THEN findings
    ELSE FindingsLoop(problems, coins, k + 1,
            IF Included(problems[k].Probability, coins[k])
            THEN Append(findings, ToFinding(problems[k]))
            ELSE findings)

\* randomAge(): every value it can return
randomAge ==
    UNION {IF f > YoungThreshold
           THEN {r + AdultFrom : r \in Intn(AdultSpan)}
           ELSE Intn(YoungSpan) : f \in Float32Draws}

NormalAgeUnclamped(mean, sd, z) == TruncDiv(z * sd + mean * ZScale, ZScale)

\* int(rand.NormFloat64()*float64(sd) + float64(mean)), clamped at 0; z is the
\* draw of rand.NormFloat64() in units of 1/ZScale
NormalAge(mean, sd, z) ==
    LET age == TruncDiv(z * sd + mean * ZScale, ZScale)
    IN  IF age < 0 THEN 0 ELSE age

\* the ages ToQuestion can give a record of truth t
Ages(t) ==
    IF t.MeanAge > 0 /\ t.StdDevAge > 0
    THEN {NormalAge(t.MeanAge, t.StdDevAge, z) : z \in NormDraws}
    ELSE randomAge

RandomSexCoinOnly(sb) == {IF f >= MaleThreshold THEN Male ELSE Female : f \in Float32Draws}

\* SexBias.RandomSex: every value it can return
RandomSex(sb) ==
    CASE sb = MenOnly -> {Male}
      [] sb = FemaleOnly -> {Female}
      [] OTHER -> {IF f >= MaleThreshold THEN Male ELSE Female : f \in Float32Draws}

\* Truth.ToQuestion with the draws coins in its findings loop: the Records it
\* can return when no GetAllParents fails
ToQuestion(t, coins) ==
    {[Age |-> a, Sex |-> s,
      Findings |-> FindingsLoop(t.Problems, coins, 1, <<>>),
      Answer |-> t.Diagnosis, Parents |-> GetAllParents(t.Diagnosis)] :
        a \in Ages(t), s \in RandomSex(t.SexBias)}

\* Does ToQuestion panic?  checkError after the GetAllParents of line 171, and
\* after the one of ToFinding for an included problem.
ToQuestionPanics == Fails("GetAllParents")

----------------------------------------------------------------------------
(* The variables a specification does not use stay as they are here *)

DriverIdle ==
    /\ n = 0 /\ allDiagnoses = <<>> /\ diagnoses = <<>> /\ di = 0 /\ allTruth = <<>>
    /\ prevalence = <<>> /\ ti = 0 /\ p = 0 /\ i = 0 /\ questions = <<>>
    /\ emitted = <<>>
BuildIdle == diagnosis = 0 /\ built = <<>>
SampleIdle == ft = NoTruth /\ draws = <<>> /\ question = NoRecord
ExplicitIdle == et = <<>> /\ loaded = <<>>

----------------------------------------------------------------------------
(* SpecSample: Truth.ToQuestion on any Truth *)

\* the probabilities of the receivers: 0, 1/2 and 1
ProbValues == {0, ProbScale \div 2, ProbScale}
SampleProblems ==
    {[Problem |-> ChestPain, Duration |-> Acute, Probability |-> pr] : pr \in ProbValues}
    \cup {[Problem |-> Breathlessness, Duration |-> Chronic, Probability |-> pr] :
            pr \in ProbValues}
\* <<MeanAge, StdDevAge>> of the receivers
SampleAgeParams == {<<0, 5>>, <<60, 0>>, <<1, 20>>, <<60, 20>>}
SampleTruths ==
    {[Diagnosis |-> MyocardialInfarctionID,
      Parents |-> GetAllParents(MyocardialInfarctionID),
      Problems |-> ps, SexBias |-> sb, MeanAge |-> ap[1], StdDevAge |-> ap[2]] :
        ps \in SeqsUpTo(SampleProblems, MaxProblems),
        sb \in {MenOnly, FemaleOnly, NoSexBias},
        ap \in SampleAgeParams}

InitSample ==
    /\ pc = "ready"
    /\ ft \in SampleTruths
    /\ draws = <<>> /\ question = NoRecord
    /\ db \in {Healthy, [unresolvable |-> {}, failing |-> {"GetAllParents"}]}
    /\ DriverIdle /\ BuildIdle /\ ExplicitIdle

\* question := ft.ToQuestion(db)
Sample ==
    /\ pc = "ready"
    /\ ~ToQuestionPanics
    /\ \E coins \in [1..Len(ft.Problems) -> Float64Draws] :
         \E q \in ToQuestion(ft, coins) :
            /\ question' = q
            /\ draws' = coins
    /\ pc' = "sampled"
    /\ UNCHANGED <<ft, db, driverVars, buildVars, explicitVars>>

\* checkError(err) panics
SamplePanic ==
    /\ pc = "ready"
    /\ ToQuestionPanics
    /\ pc' = "panic"
    /\ UNCHANGED <<ft, draws, question, db, driverVars, buildVars, explicitVars>>

NextSample == Sample \/ SamplePanic
SpecSample == InitSample /\ [][NextSample]_vars

----------------------------------------------------------------------------
(* Claims about Truth.ToQuestion, under SpecSample *)

\* the problems the draws select: draw strictly below the probability
SelectedIndices ==
    {k \in 1..Len(ft.Problems) : draws[k] < ft.Problems[k].Probability}
\* the j-th smallest of a set of indices
NthIndex(S, j) == CHOOSE k \in S : Cardinality({m \in S : m <= k}) = j

\* C3: the Findings of a Record returned by ToQuestion are exactly the
\* Problems whose draw is strictly less than their Probability, in the order
\* of Truth.Problems, none twice, each with its Problem's concept and
\* Duration; a Problem of probability 0 is never among them.
C3_FindingsAreSelectedProblems ==
    pc = "sampled" =>
        /\ Len(draws) = Len(ft.Problems)
        /\ Len(question.Findings) = Cardinality(SelectedIndices)
        /\ \A j \in 1..Len(question.Findings) :
              LET k == NthIndex(SelectedIndices, j)
              IN  /\ question.Findings[j].Concept = ft.Problems[k].Problem
                  /\ question.Findings[j].Duration = ft.Problems[k].Duration
        /\ \A k \in 1..Len(ft.Problems) :
              ft.Problems[k].Probability = 0 => k \notin SelectedIndices

\* a sample of two different problems that drops the first and keeps the second
C3_Witness ==
    /\ pc = "sampled"
    /\ Len(ft.Problems) = 2
    /\ ft.Problems[1].Problem # ft.Problems[2].Problem
    /\ ft.Problems[1].Probability > 0
    /\ draws[1] >= ft.Problems[1].Probability
    /\ Len(question.Findings) = 1
    /\ question.Findings[1].Concept = ft.Problems[2].Problem

\* C6: every Record returned by ToQuestion has Age >= 0: with MeanAge > 0 and
\* StdDevAge > 0 it is the normal draw mean + z*sd, truncated, and 0 when that
\* is negative; otherwise it is an age of randomAge, in [0, 100).
C6_AgeNonNegative ==
    pc = "sampled" =>
        /\ question.Age >= 0
        /\ (ft.MeanAge > 0 /\ ft.StdDevAge > 0) =>
              \E z \in NormDraws :
                 LET x == z * ft.StdDevAge + ft.MeanAge * ZScale  \* the draw, times ZScale
                 IN  \/ question.Age = 0 /\ x < ZScale
                     \/ /\ question.Age > 0
                        /\ question.Age * ZScale <= x
                        /\ x < (question.Age + 1) * ZScale
        /\ (ft.MeanAge <= 0 \/ ft.StdDevAge <= 0) =>
              question.Age \in 0..(AdultFrom + AdultSpan - 1)

\* a normal draw below zero, clamped
C6_Witness ==
    /\ pc = "sampled"
    /\ ft.MeanAge = 1 /\ ft.StdDevAge = 20
    /\ question.Age = 0

\* C7: a Record of a MenOnly Truth is Male, of a FemaleOnly Truth Female, and
\* the Sex of any Record is Male or Female, whatever the draws of the sample
\* (every sample of a Truth is one such call: sampling leaves it unchanged).
C7_SexFollowsBias ==
    pc = "sampled" =>
        /\ ft.SexBias = MenOnly => question.Sex = Male
        /\ ft.SexBias = FemaleOnly => question.Sex = Female
        /\ question.Sex \in {Male, Female}

C7_Witness ==
    /\ pc = "sampled"
    /\ ft.SexBias = FemaleOnly
    /\ question.Sex = Female
    /\ Len(question.Findings) > 0

----------------------------------------------------------------------------
(* relatedBySiteForDiagnosis *)

\* dbs.GetParentsOfKind(concept, snomed.FindingSite)
GetParentsOfKind(c) == FindingSites(c)
\* dbs.GetSiblings(thoracic)
GetSiblings(c) == IF c \in Structures THEN Structures \ {c} ELSE {}
\* dbs.Genericise(site, structures): the structures the site is below
Genericise(site, structures) == structures \cap Ancestors(site)
\* dbs.FetchRecursiveChildren(site)
FetchRecursiveChildren(c) == {x \in Concepts : c \in Ancestors(x)}
\* dbs.GetChildrenOfKind(child, snomed.FindingSite)
GetChildrenOfKind(c) == {x \in Concepts : c \in FindingSites(x)}
\* symptom.IsA(snomed.SctDisease)
IsADisease(c) == SctDiagnosisRoot \in Ancestors(c)

RelatedResult(kind, syms, failed) == [kind |-> kind, syms |-> syms, failed |-> failed]

\* relatedBySiteForDiagnosis(dbs, concept).  kind is "ok" (nil error), "err"
\* (an error returned) or "panic"; syms the concepts returned; failed the
\* gateway calls that were made and returned an error.  A failed call returns
\* no concepts.  The error of FetchConcept(51185008) is overwritten and that of
\* GetSiblings never read; the one of FetchRecursiveChildren is discarded.
\* With thoracic nil the calls that follow dereference it (a panic) or find
\* no sibling of it, as the gateway is built: nilDeref says which.  The nil
\* appended to structures matches no site.
relatedBySiteForDiagnosis(concept, nilDeref) ==
    IF Fails("GetParentsOfKind")
    THEN RelatedResult("err", {}, {"GetParentsOfKind"})
    ELSE
    LET sites == GetParentsOfKind(concept)
        thoracicFound == Resolves(Thoracic)
        f1 == IF thoracicFound THEN {} ELSE {"FetchConcept"}
        f2 == f1 \cup (IF Fails("GetSiblings") THEN {"GetSiblings"} ELSE {})
        structures == (IF Fails("GetSiblings") \/ ~thoracicFound
                       THEN {} ELSE GetSiblings(Thoracic))
                        \cup (IF thoracicFound THEN {Thoracic} ELSE {})
        genericSites == UNION {Genericise(site, structures) : site \in sites}
        childrenFail == Fails("FetchRecursiveChildren") /\ genericSites # {}
        f3 == f2 \cup (IF childrenFail THEN {"FetchRecursiveChildren"} ELSE {})
        allChildren == IF Fails("FetchRecursiveChildren") THEN {}
                       ELSE UNION {FetchRecursiveChildren(site) : site \in genericSites}
        allSymptoms == {s \in UNION {GetChildrenOfKind(child) : child \in allChildren} :
                            ~IsADisease(s)}
    IN  IF ~thoracicFound /\ nilDeref
        THEN RelatedResult("panic", {}, f1)
        ELSE IF allChildren # {} /\ Fails("GetChildrenOfKind")
        THEN RelatedResult("err", {}, f3 \cup {"GetChildrenOfKind"})
        ELSE RelatedResult("ok", allSymptoms, f3)

----------------------------------------------------------------------------
(* generateTruth *)

\* randomDuration and randomSexBias draw from these
PossibleDurations == <<Acute, Subacute, Chronic, Episodic>>
PossibleSexBias == <<MenOnly, FemaleOnly, NoSexBias>>

\* snomed.MapToSlice(allSymptoms): a slice of the set in any order
Orders(S) ==
    {s \in [1..Cardinality(S) -> S] : \A a, b \in 1..Cardinality(S) : a # b => s[a] # s[b]}

\* the draws of rand.Intn(m); rand.Intn panics for m <= 0, and the draw handed
\* on in its place is never read
IntnOrNone(m) == IF m <= 0 THEN {0} ELSE Intn(m)

BuildResult(kind, at, truth, related) ==
    [kind |-> kind, at |-> at, truth |-> truth, related |-> related]

\* symptoms[rand.Intn(totalSymptoms-1)]: the argument of rand.Intn
SymptomIndexRange(totalSymptoms) == totalSymptoms - 1

\* sd := min(meanAge, 20); rand.Intn(sd): the argument of rand.Intn
StdDevRange(meanAge) == Min(meanAge, MaxStdDev)

\* generateTruth(db, diagnosis) with its draws: symptoms the slice made of the
\* candidate set, kd the draw of numSymptoms, picks[k] the draws of iteration
\* k (r: symptom index, d: duration index, f: probability), meanAge the age
\* of randomAge, sb the draw of randomSexBias, sd the draw of the deviation.
\* kind is "found" (truth, true), "notfound" (nil, false) or "panic", at the
\* call that panicked.
generateTruth(d, nilDeref, symptoms, kd, picks, meanAge, sb, sd) ==
    LET related == relatedBySiteForDiagnosis(d, nilDeref)
        totalSymptoms == Len(symptoms)
        numSymptoms == 1 + kd
        problems == [k \in 1..numSymptoms |->
                        [Problem |-> symptoms[picks[k].r + 1],
                         Duration |-> PossibleDurations[picks[k].d + 1],
                         Probability |-> picks[k].f]]
    IN  IF related.kind = "panic"
        THEN BuildResult("panic", "nil thoracic", NoTruth, related)
        ELSE IF related.kind = "err"
        THEN BuildResult("panic", "checkError(relatedBySiteForDiagnosis)", NoTruth, related)
        ELSE IF ~(totalSymptoms > 0)
        THEN BuildResult("notfound", "", NoTruth, related)
        ELSE IF Fails("GetAllParents")
        THEN BuildResult("panic", "checkError(GetAllParents)", NoTruth, related)
        ELSE IF SymptomIndexRange(totalSymptoms) <= 0
        THEN BuildResult("panic", "rand.Intn(totalSymptoms-1)", NoTruth, related)
        ELSE IF StdDevRange(meanAge) <= 0
        THEN BuildResult("panic", "rand.Intn(sd)", NoTruth, related)
        ELSE BuildResult("found", "",
                [Diagnosis |-> d, Parents |-> GetAllParents(d), Problems |-> problems,
                 SexBias |-> PossibleSexBias[sb + 1], MeanAge |-> meanAge,
                 StdDevAge |-> sd],
                related)

\* the draws of one iteration of the problems loop
PickDraws(totalSymptoms) ==
    [r : IntnOrNone(SymptomIndexRange(totalSymptoms)),
     d : Intn(Len(PossibleDurations) - 1),
     f : Float64Draws]

----------------------------------------------------------------------------
(* SpecBuild: generateTruth on one diagnosis *)

BuildDatabases ==
    {[unresolvable |-> u, failing |-> f] : u \in {{}, {Thoracic}}, f \in SUBSET CallKinds}

InitBuild ==
    /\ pc = "ready"
    /\ diagnosis \in Diagnoses
    /\ built = <<>>
    /\ db \in BuildDatabases
    /\ DriverIdle /\ SampleIdle /\ ExplicitIdle

\* truth, ok := generateTruth(db, diagnosis)
GenerateTruth ==
    /\ pc = "ready"
    /\ \E nilDeref \in (IF Resolves(Thoracic) THEN {FALSE} ELSE BOOLEAN) :
         LET related == relatedBySiteForDiagnosis(diagnosis, nilDeref)
             runs == related.kind = "ok" /\ ~Fails("GetAllParents")
         IN  \E symptoms \in Orders(IF runs THEN related.syms ELSE {}) :
             \E kd \in IntnOrNone(Min(MaxSymptoms, Len(symptoms))) :
             \E picks \in [1..(1 + kd) -> PickDraws(Len(symptoms))] :
             \E meanAge \in (IF Len(symptoms) > 1 THEN randomAge ELSE {0}) :
             \E sb \in Intn(Len(PossibleSexBias) - 1) :
             \E sd \in IntnOrNone(StdDevRange(meanAge)) :
                built' = generateTruth(diagnosis, nilDeref, symptoms, kd, picks,
                                       meanAge, sb, sd)
    /\ pc' = "built"
    /\ UNCHANGED <<diagnosis, db, driverVars, sampleVars, explicitVars>>

NextBuild == GenerateTruth
SpecBuild == InitBuild /\ [][NextBuild]_vars

----------------------------------------------------------------------------
(* Claims about generateTruth and relatedBySiteForDiagnosis, under SpecBuild *)

\* C4: generateTruth returns found=false, without a panic, exactly when
\* discovery yields no candidate; for every candidate set of size c >= 1 and
\* every outcome of the draws it returns found=true with a Truth of k
\* Problems, 1 <= k <= min(30, c), each a member of the candidate set.  (The
\* database is healthy: no gateway call fails.)
C4_FoundIffCandidates ==
    (pc = "built" /\ db = Healthy) =>
        LET c == Cardinality(built.related.syms)
        IN  /\ built.kind # "panic"
            /\ built.kind = "notfound" <=> c = 0
            /\ built.kind = "found" =>
                 /\ Len(built.truth.Problems) >= 1
                 /\ Len(built.truth.Problems) <= Min(MaxSymptoms, c)
                 /\ \A k \in 1..Len(built.truth.Problems) :
                       built.truth.Problems[k].Problem \in built.related.syms

\* C5: when a gateway call made inside relatedBySiteForDiagnosis has returned
\* an error, relatedBySiteForDiagnosis returns an error and no candidate set.
C5_DiscoveryFailFast ==
    (pc = "built" /\ built.related.failed # {}) =>
        built.related.kind = "err" /\ built.related.syms = {}


----------------------------------------------------------------------------
(* explicitTruth.toFakeTruth *)

ExplicitProblem(conceptID, duration, probability) ==
    [conceptID |-> conceptID, duration |-> duration, probability |-> probability]

\* var myocardialInfarction
myocardialInfarction ==
    [diagnosis |-> MyocardialInfarctionID,
     problems |-> <<ExplicitProblem(ChestPain, Acute, 95),
                    ExplicitProblem(Breathlessness, Acute, 70),
                    ExplicitProblem(Sweating, Acute, 80),
                    ExplicitProblem(JawPain, Acute, 55),
                    ExplicitProblem(STElevation, Acute, 60)>>,
     meanAge |-> 60, stdDevAge |-> 20]

LoadResult(kind, truth) == [kind |-> kind, truth |-> truth]

\* explicitProblem.toFakeProblem, its FetchConcept having succeeded
toFakeProblem(ep) ==
    [Problem |-> ep.conceptID, Duration |-> ep.duration, Probability |-> ep.probability]

\* the loop of toFakeTruth from problem k on: the problems appended, or <<>>
\* with failed set once a toFakeProblem has returned an error
RECURSIVE ProblemsLoop(_, _, _)
ProblemsLoop(eps, k, problems) ==
    IF k > Len(eps) THEN [failed |-> FALSE, problems |-> problems]
    ELSE IF ~Resolves(eps[k].conceptID) THEN [failed |-> TRUE, problems |-> <<>>]
    ELSE ProblemsLoop(eps, k + 1, Append(problems, toFakeProblem(eps[k])))

toFakeTruthAgesSwapped(e) ==
    LET loop == ProblemsLoop(e.problems, 1, <<>>)
    IN  IF ~Resolves(e.diagnosis) \/ loop.failed \/ Fails("GetAllParents")
        THEN LoadResult("err", NoTruth)
        ELSE LoadResult("ok",
                [Diagnosis |-> e.diagnosis, Parents |-> GetAllParents(e.diagnosis),
                 Problems |-> loop.problems, SexBias |-> NoSexBias,
                 MeanAge |-> e.stdDevAge, StdDevAge |-> e.meanAge])

\* explicitTruth.toFakeTruth: kind "ok" is (truth, nil), "err" is (nil, err)
toFakeTruth(e) ==
    IF ~Resolves(e.diagnosis)
    THEN LoadResult("err", NoTruth)
    ELSE LET loop == ProblemsLoop(e.problems, 1, <<>>)
         IN  IF loop.failed
             THEN LoadResult("err", NoTruth)
             ELSE IF Fails("GetAllParents")
             THEN LoadResult("err", NoTruth)
             ELSE LoadResult("ok",
                    [Diagnosis |-> e.diagnosis, Parents |-> GetAllParents(e.diagnosis),
                     Problems |-> loop.problems, SexBias |-> NoSexBias,
                     MeanAge |-> e.meanAge, StdDevAge |-> e.stdDevAge])

\* MyocardialInfarctionTruth
MyocardialInfarctionTruth == toFakeTruth(myocardialInfarction)

\* C9: computing StdDevAge never fails, and every Truth generateTruth builds,
\* like the one of the myocardial infarction literal, has
\* 0 <= StdDevAge <= min(MeanAge, 20).
C9_StdDevCapped ==
    pc = "built" =>
        /\ ~(built.kind = "panic" /\ built.at = "rand.Intn(sd)")
        /\ \A t \in (IF built.kind = "found" THEN {built.truth} ELSE {})
                   \cup (IF MyocardialInfarctionTruth.kind = "ok"
                         THEN {MyocardialInfarctionTruth.truth} ELSE {}) :
              /\ 0 <= t.StdDevAge
              /\ t.StdDevAge <= Min(t.MeanAge, MaxStdDev)

----------------------------------------------------------------------------
(* SpecExplicit: toFakeTruth on a literal *)

\* the literals of the model; 0 is an id no concept has
ExplicitProblems ==
    {ExplicitProblem(c, d, pr) : c \in {ChestPain, Jaundice, 0},
                                 d \in {Acute, Episodic},
                                 pr \in ProbValues}
ExplicitTruths ==
    {myocardialInfarction} \cup
    {[diagnosis |-> d, problems |-> ps, meanAge |-> ap[1], stdDevAge |-> ap[2]] :
        d \in {MyocardialInfarctionID, Pneumonia, 0},
        ps \in SeqsUpTo(ExplicitProblems, MaxProblems),
        ap \in {<<30, 5>>}}
ExplicitDatabases ==
    {[unresolvable |-> u, failing |-> f] :
        u \in {{}, {MyocardialInfarctionID}, {ChestPain}, {STElevation}},
        f \in {{}, {"GetAllParents"}}}

InitExplicit ==
    /\ pc = "ready"
    /\ et \in ExplicitTruths
    /\ loaded = <<>>
    /\ db \in ExplicitDatabases
    /\ DriverIdle /\ BuildIdle /\ SampleIdle

\* truth, err := et.toFakeTruth(db)
Load ==
    /\ pc = "ready"
    /\ loaded' = toFakeTruth(et)
    /\ pc' = "loaded"
    /\ UNCHANGED <<et, db, driverVars, buildVars, sampleVars>>

NextExplicit == Load
SpecExplicit == InitExplicit /\ [][NextExplicit]_vars

----------------------------------------------------------------------------
(* Claims about toFakeTruth, under SpecExplicit *)

\* the diagnosis id or a problem's concept id does not resolve
SomeIdUnresolved ==
    \/ ~Resolves(et.diagnosis)
    \/ \E k \in 1..Len(et.problems) : ~Resolves(et.problems[k].conceptID)

\* the Truth loaded is the literal's: one Problem per triple, in order, with
\* the triple's concept, duration and probability, NoSexBias, the ages given
LoadedIsLiteral ==
    /\ loaded.kind = "ok"
    /\ loaded.truth.Diagnosis = et.diagnosis
    /\ Len(loaded.truth.Problems) = Len(et.problems)
    /\ \A k \in 1..Len(et.problems) :
          /\ loaded.truth.Problems[k].Problem = et.problems[k].conceptID
          /\ loaded.truth.Problems[k].Duration = et.problems[k].duration
          /\ loaded.truth.Problems[k].Probability = et.problems[k].probability
    /\ loaded.truth.SexBias = NoSexBias
    /\ loaded.truth.MeanAge = et.meanAge
    /\ loaded.truth.StdDevAge = et.stdDevAge

\* the myocardial infarction literal loaded: 5 problems, NoSexBias, ages 60 and
\* 20, chest pain at 0.95 and ST elevation at 0.60
LoadedIsMyocardialInfarction ==
    /\ loaded.truth.Diagnosis = 22298006
    /\ Len(loaded.truth.Problems) = 5
    /\ loaded.truth.SexBias = NoSexBias
    /\ loaded.truth.MeanAge = 60
    /\ loaded.truth.StdDevAge = 20
    /\ \E k \in 1..5 : /\ loaded.truth.Problems[k].Problem = 29857009
                       /\ loaded.truth.Problems[k].Probability = 95
    /\ \E k \in 1..5 : /\ loaded.truth.Problems[k].Problem = 76388001
                       /\ loaded.truth.Problems[k].Probability = 60

\* C8 as claimed: toFakeTruth returns an error and no Truth if the diagnosis
\* id or a problem concept id fails to resolve, and otherwise the Truth of
\* the literal (for the myocardial infarction literal the five problems,
\* NoSexBias, MeanAge 60, StdDevAge 20).
C8_Original ==
    pc = "loaded" =>
        /\ SomeIdUnresolved => loaded.kind = "err" /\ loaded.truth = NoTruth
        /\ ~SomeIdUnresolved =>
              /\ LoadedIsLiteral
              /\ et = myocardialInfarction => LoadedIsMyocardialInfarction

\* C8 as amended: toFakeTruth returns an error and no Truth if the diagnosis
\* id or a problem concept id fails to resolve or the GetAllParents of the
\* diagnosis fails, and otherwise the Truth of the literal.
C8_LoadsLiteralOrFails ==
    pc = "loaded" =>
        /\ (SomeIdUnresolved \/ Fails("GetAllParents")) =>
              loaded.kind = "err" /\ loaded.truth = NoTruth
        /\ ~(SomeIdUnresolved \/ Fails("GetAllParents")) =>
              /\ LoadedIsLiteral
              /\ et = myocardialInfarction => LoadedIsMyocardialInfarction

\* the myocardial infarction literal, loaded from a healthy database
C8_Witness ==
    /\ pc = "loaded"
    /\ et = myocardialInfarction
    /\ db = Healthy
    /\ loaded.kind = "ok"
    /\ Len(loaded.truth.Problems) = 5

----------------------------------------------------------------------------
(* GenerateFakeTruth *)

\* calculatePrevalence(db, prevalence, diagnosis): the prevalence of the
\* diagnosis, a fraction v/PrevScale; the map keeps what it returned.  The
\* values a diagnosis that is not in the map yet can get:
calculatePrevalence(d) ==
    IF d \in DOMAIN prevalence THEN {prevalence[d]} ELSE 0..MaxPrev

\* p := 5 + int(calculatePrevalence(...)*10000)*n, for the prevalence v/PrevScale
ReplicationCount(v, scale) ==
    BaseQuestions + TruncDiv(v * PrevalenceFactor, PrevScale) * scale

\* the snapshots of the diagnoses below the diagnosis root: the slice
\* FetchRecursiveChildren(rootDiagnosis) returns
DiagnosisSlices ==
    {s \in SeqsUpTo(Diagnoses, MaxDiagnoses) :
        Len(s) > 0 /\ \A a, b \in 1..Len(s) : a < b => s[a] < s[b]}

DriverDatabases == {Healthy, [unresolvable |-> {STElevation}, failing |-> {}]}

Largest(S) == CHOOSE x \in S : \A y \in S : y <= x
Smallest(S) == CHOOSE x \in S : \A y \in S : x <= y

Init ==
    /\ pc = "start"
    /\ n \in (-1)..MaxN
    /\ allDiagnoses \in DiagnosisSlices
    /\ diagnoses = <<>> /\ di = 0 /\ allTruth = <<>>
    /\ prevalence = <<>> /\ ti = 0 /\ p = 0 /\ i = 0
    /\ questions = <<>> /\ emitted = <<>>
    /\ db \in DriverDatabases
    /\ BuildIdle /\ SampleIdle /\ ExplicitIdle

\* lines 26-42: the diagnoses to build, n of them drawn from allDiagnoses when
\* n >= 0, and the myocardial infarction truth first in allTruth
Prepare ==
    /\ pc = "start"
    /\ \E picked \in (IF n >= 0 THEN [1..n -> {allDiagnoses[r + 1] : r \in Intn(Len(allDiagnoses))}]
                      ELSE {allDiagnoses}) :
          diagnoses' = picked
    /\ LET mi == MyocardialInfarctionTruth
       IN  IF \/ ~Resolves(SctDiagnosisRoot)
              \/ Fails("FetchRecursiveChildren")
              \/ mi.kind = "err"
           THEN pc' = "panic" /\ UNCHANGED <<allTruth, di>>
           ELSE pc' = "build" /\ allTruth' = <<mi.truth>> /\ di' = 1
    /\ UNCHANGED <<n, allDiagnoses, prevalence, ti, p, i, questions, emitted, db,
                   buildVars, sampleVars, explicitVars>>

\* lines 43-48, one iteration: truth, ok := generateTruth(db, diag).  Of the
\* draws of generateTruth this specification takes one problem, of the first
\* symptom of the slice, acute, with the largest probability drawn, the first
\* sex bias, the smallest and the largest age, the largest deviation.
BuildTruth ==
    /\ pc = "build"
    /\ di <= Len(diagnoses)
    /\ LET related == relatedBySiteForDiagnosis(diagnoses[di], FALSE)
       IN  \E symptoms \in Orders(related.syms) :
           \E meanAge \in {Smallest(randomAge), Largest(randomAge)} :
              LET pick == [r |-> 0, d |-> 0, f |-> Largest(Float64Draws)]
                  sd == Largest(IntnOrNone(StdDevRange(meanAge)))
                  out == generateTruth(diagnoses[di], FALSE, symptoms, 0, <<pick>>,
                                       meanAge, 0, sd)
              IN  IF out.kind = "panic"
                  THEN pc' = "panic" /\ UNCHANGED <<allTruth, di>>
                  ELSE /\ allTruth' = IF out.kind = "found"
                                      THEN Append(allTruth, out.truth)
                                      ELSE allTruth
                       /\ di' = di + 1
                       /\ pc' = "build"
    /\ UNCHANGED <<n, allDiagnoses, diagnoses, prevalence, ti, p, i, questions,
                   emitted, db, buildVars, sampleVars, explicitVars>>

\* line 51: the range loop over allTruth starts
StartSampling ==
    /\ pc = "build"
    /\ di > Len(diagnoses)
    /\ ti' = 1
    /\ pc' = "truth"
    /\ UNCHANGED <<n, allDiagnoses, diagnoses, di, allTruth, prevalence, p, i,
                   questions, emitted, db, buildVars, sampleVars, explicitVars>>

\* line 52: p for the truth at ti, and i := 0
NextTruth ==
    /\ pc = "truth"
    /\ ti <= Len(allTruth)
    /\ \E v \in calculatePrevalence(allTruth[ti].Diagnosis) :
          /\ prevalence' = [d \in DOMAIN prevalence \cup {allTruth[ti].Diagnosis} |->
                               IF d = allTruth[ti].Diagnosis THEN v ELSE prevalence[d]]
          /\ p' = ReplicationCount(v, n)
    /\ i' = 0
    /\ emitted' = Append(emitted, 0)
    /\ pc' = "question"
    /\ UNCHANGED <<n, allDiagnoses, diagnoses, di, allTruth, ti, questions, db,
                   buildVars, sampleVars, explicitVars>>

SampleQuestionShrinking ==
    /\ pc = "question"
    /\ i < p
    /\ \E coins \in {[k \in 1..Len(allTruth[ti].Problems) |-> f] : f \in Float64Draws} :
         \E q \in ToQuestion(allTruth[ti], coins) :
            /\ questions' = Append(questions, q.Answer)
            /\ LET keep(pr) == \E f \in Range(q.Findings) : f.Concept = pr.Problem
               IN  allTruth' = [allTruth EXCEPT ![ti].Problems =
                                   SelectSeq(allTruth[ti].Problems, keep)]
    /\ emitted' = [emitted EXCEPT ![ti] = @ + 1]
    /\ i' = i + 1
    /\ pc' = "question"
    /\ UNCHANGED <<n, allDiagnoses, diagnoses, di, prevalence, ti, p, db,
                   buildVars, sampleVars, explicitVars>>

\* lines 53-56, one iteration: question := truth.ToQuestion(db), appended.
\* (The database of a run that gets here is healthy.)  Of the draws of
\* ToQuestion this specification takes those with one coin for all problems:
\* of a Record the output collection of the model keeps the Answer.
SampleQuestion ==
    /\ pc = "question"
    /\ i < p
    /\ \E coins \in {[k \in 1..Len(allTruth[ti].Problems) |-> f] : f \in Float64Draws} :
         \E q \in ToQuestion(allTruth[ti], coins) :
            questions' = Append(questions, q.Answer)
    /\ emitted' = [emitted EXCEPT ![ti] = @ + 1]
    /\ i' = i + 1
    /\ pc' = "question"
    /\ UNCHANGED <<n, allDiagnoses, diagnoses, di, allTruth, prevalence, ti, p, db,
                   buildVars, sampleVars, explicitVars>>

\* line 53, i < p false: on to the next truth
EndTruth ==
    /\ pc = "question"
    /\ ~(i < p)
    /\ ti' = ti + 1
    /\ pc' = "truth"
    /\ UNCHANGED <<n, allDiagnoses, diagnoses, di, allTruth, prevalence, p, i,
                   questions, emitted, db, buildVars, sampleVars, explicitVars>>

\* lines 58-60: the range loop is over, the questions are printed
PrintQuestions ==
    /\ pc = "truth"
    /\ ti > Len(allTruth)
    /\ pc' = "done"
    /\ UNCHANGED <<driverVars, db, buildVars, sampleVars, explicitVars>>

Next ==
    \/ Prepare
    \/ BuildTruth
    \/ StartSampling
    \/ NextTruth
    \/ SampleQuestion
    \/ EndTruth
    \/ PrintQuestions

Spec == Init /\ [][Next]_vars

----------------------------------------------------------------------------
(* Claims about GenerateFakeTruth, under Spec *)

\* C1: for every Truth the driver holds, whatever its prevalence and whatever
\* n (negative n included), the driver appends at least 5 Records.
C1_AtLeastFiveRecords ==
    pc = "done" =>
        \A t \in 1..Len(allTruth) : emitted[t] >= BaseQuestions

\* C2: of two Truths of one run, the one whose diagnosis has the greater
\* prevalence gets at least as many Records as the other.
C2_MonotonicInPrevalence ==
    pc = "done" =>
        \A t1, t2 \in 1..Len(allTruth) :
            prevalence[allTruth[t1].Diagnosis] > prevalence[allTruth[t2].Diagnosis]
                => emitted[t1] >= emitted[t2]

\* C10: sampling leaves the Truths unchanged: no step of the sampling loops
\* (the computation of p, a ToQuestion call, the move to the next Truth)
\* changes allTruth, and a ToQuestion call changes nothing but the output
\* collection and the loop counter.
C10_SamplingLeavesTruthsUnchanged ==
    [][/\ pc \in {"truth", "question"} => allTruth' = allTruth
       /\ questions' # questions =>
             UNCHANGED <<allTruth, diagnoses, allDiagnoses, prevalence, n, p, ti, db>>]_vars

\* the second Truth is being sampled after the first one was, and it has
\* problems
C10_Witness ==
    /\ pc = "question"
    /\ ti = 2
    /\ i >= 1
    /\ emitted[1] >= 1
    /\ Len(allTruth[1].Problems) > 0
    /\ Len(allTruth[2].Problems) > 0

====
